---- MODULE Spec2Model ----
(***************************************************************************)
(* Model of functions/stats.js: the in-memory statistics endpoint.         *)
(*                                                                         *)
(* State of the module: the session table `sessions`, the page-view list   *)
(* `pageViews` and `lastCleanup`.  One action, Request, is one invocation   *)
(* of exports.handler (sweep, dispatch, handler, try/catch); Tick is the   *)
(* wall clock advancing between invocations.  One invocation reads the     *)
(* clock as a single instant.  Invoke and Resume split an invocation at    *)
(* its await, so that invocations overlap: Invoke is the event turn that   *)
(* runs up to the await, Resume the one that runs after it.                *)
(* Times are milliseconds since the epoch; the server's local time zone is *)
(* UTC.                                                                     *)
(***************************************************************************)
EXTENDS Integers, Sequences, FiniteSets, TLC

VARIABLES
    sessions,      \* let sessions = new Map()      sessionId -> session
    pageViews,     \* let pageViews = []
    lastCleanup,   \* let lastCleanup = Date.now()
    now,           \* the wall clock, Date.now()
    event,         \* history: the event of the latest invocation
    prev,          \* history: event, outcome and time of the invocation before it
    response,      \* history: what the latest invocation returned
    eventTime,     \* history: the clock at the latest invocation
    swept,         \* history: TRUE iff the latest invocation ran cleanup()
    sweeps,        \* history: the times at which cleanup() ran, in order
    atEntry,       \* history: module state when the latest invocation began
    atDispatch,    \* history: module state when its try block was entered
    submitted,     \* history: the page views submitted (POST /pageview with a JSON body), in order
    firstPageView, \* history: sessionId -> time of its first page view answered 200
    lastSignal,    \* history: sessionId -> time of its latest page view/heartbeat answered 200
    calls,         \* the invocations begun by Invoke, in the order they began
    nRequests,     \* number of invocations so far
    nTicks         \* number of clock advances so far

vars == <<sessions, pageViews, lastCleanup, now, event, prev, response,
          eventTime, swept, sweeps, atEntry, atDispatch, submitted, firstPageView,
          lastSignal, calls, nRequests, nTicks>>

-----------------------------------------------------------------------------
(* Program constants *)

FiveMinutes == 5 * 60 * 1000        \* now - 5 * 60 * 1000
CleanupInterval == 60000            \* Date.now() - lastCleanup > 60000
MaxPageViews == 1000                \* pageViews.length > 1000, slice(-1000)
PopularLimit == 10                  \* .slice(0, 10)
DayMs == 24 * 60 * 60 * 1000        \* one calendar day of the Date object

(* Bounds of the model *)

MaxRequests == 3                    \* invocations explored by Spec
MaxDispatched == 2                  \* invocations explored by SpecDispatch
MaxTicks == 2                       \* clock advances explored
FillCount == 999                    \* page views SpecBurst sends before it branches
MaxBurst == 2                       \* invocations SpecBurst explores after them
MaxConcurrent == 2                  \* invocations SpecConcurrent begins

StartTime == DayMs - FiveMinutes    \* the process is loaded five minutes before midnight
Steps == {CleanupInterval, FiveMinutes}   \* amounts by which the clock advances

-----------------------------------------------------------------------------
(* Values *)

Undefined == "undefined"            \* the JavaScript value undefined
SessionIds == {"a", "b"}
Pages == {"/home", "/about"}

Prefix == "/.netlify/functions/stats"

\* event.body: the text of a request body.  A JSON object text carries the
\* members sessionId and page (Undefined: the member is missing).  NoBody is
\* a request without a body (event.body undefined), which no JSON.parse accepts.
ObjectBody(sid, page) == [text |-> "object", sessionId |-> sid, page |-> page]
NullBody == [text |-> "null", sessionId |-> Undefined, page |-> Undefined]
MalformedBody == [text |-> "malformed", sessionId |-> Undefined, page |-> Undefined]
NoBody == [text |-> "none", sessionId |-> Undefined, page |-> Undefined]

Event(method, path, body) == [httpMethod |-> method, path |-> path, body |-> body]
NoEvent == Event("none", <<>>, NoBody)

\* Faulty variant of JSONparse: text that is not JSON is read as null, as in
\* JSON.parse(event.body || 'null').
JSONparse_Lenient(body) ==
    IF body.text \in {"malformed", "none", "null"}
    THEN [threw |-> FALSE, isNull |-> TRUE, sessionId |-> Undefined, page |-> Undefined]
    ELSE [threw |-> FALSE, isNull |-> FALSE, sessionId |-> body.sessionId, page |-> body.page]

\* JSON.parse(event.body): throws on text that is not JSON; the text null
\* gives the value null; an object text gives the object.
JSONparse(body) ==
    IF body.text \in {"malformed", "none"}
    THEN [threw |-> TRUE, isNull |-> FALSE, sessionId |-> Undefined, page |-> Undefined]
    ELSE IF body.text = "null"
    THEN [threw |-> FALSE, isNull |-> TRUE, sessionId |-> Undefined, page |-> Undefined]
    ELSE [threw |-> FALSE, isNull |-> FALSE, sessionId |-> body.sessionId, page |-> body.page]

\* new Date().toISOString(): calendar date and time of day, in UTC.
ToISOString(ms) == <<ms \div DayMs, ms % DayMs>>
\* new Date(view.timestamp): the instant an ISO string names.
DateOf(iso) == iso[1] * DayMs + iso[2]
\* .toDateString(): the calendar date of an instant in local time.
ToDateString(ms) == ms \div DayMs

\* event.path.replace('/.netlify/functions/stats', ''): the first occurrence
\* of the prefix is removed.  A path is the sequence of its parts.
RECURSIVE StripPrefix(_)
StripPrefix(path) ==
    IF path = <<>> THEN <<>>
    ELSE IF Head(path) = Prefix THEN Tail(path)
    ELSE <<Head(path)>> \o StripPrefix(Tail(path))

Response(status, body) == [defined |-> TRUE, statusCode |-> status, body |-> body]
NoResponse == [defined |-> FALSE]   \* the handler returned undefined
EmptyBody == [text |-> ""]

MapSet(m, k, v) == [x \in DOMAIN m \cup {k} |-> IF x = k THEN v ELSE m[x]]
MapDelete(m, k) == [x \in DOMAIN m \ {k} |-> m[x]]
EmptyMap == [x \in {} |-> 0]


-----------------------------------------------------------------------------
(* The module's functions.  A handler's outcome is the module state it     *)
(* leaves and either the response it returned or the fact that it threw.   *)

Returned(S, V, resp) == [threw |-> FALSE, sessions |-> S, pageViews |-> V, response |-> resp]
Threw(S, V) == [threw |-> TRUE, sessions |-> S, pageViews |-> V, response |-> NoResponse]

\* Faulty variant of cleanup: the threshold is ten minutes.
cleanup_TenMinutes(S, t) ==
    LET tenMinutesAgo == t - 10 * 60 * 1000
    IN  [s \in {x \in DOMAIN S : ~(S[x].lastHeartbeat < tenMinutesAgo)} |-> S[s]]

\* Faulty variant of cleanup: <=, a session exactly five minutes old is removed.
cleanup_Inclusive(S, t) ==
    LET fiveMinutesAgo == t - FiveMinutes
    IN  [s \in {x \in DOMAIN S : ~(S[x].lastHeartbeat <= fiveMinutesAgo)} |-> S[s]]

\* function cleanup(): the sessions it leaves in the table at time t.
cleanup(S, t) ==
    LET fiveMinutesAgo == t - FiveMinutes
    IN  [s \in {x \in DOMAIN S : ~(S[x].lastHeartbeat < fiveMinutesAgo)} |-> S[s]]

\* Faulty variant of SliceLast: slice(0, n), which keeps the oldest views.
SliceLast_KeepsOldest(seq, n) ==
    IF Len(seq) <= n THEN seq ELSE SubSeq(seq, 1, n)

\* pageViews.slice(-n)
SliceLast(seq, n) ==
    IF Len(seq) <= n THEN seq ELSE SubSeq(seq, Len(seq) - n + 1, Len(seq))

\* Faulty variant of FirstSeen: every page view stamps firstSeen anew.
FirstSeen_AlwaysNow(S, sid, t) == t

\* sessions.has(id) ? sessions.get(id).firstSeen : Date.now()
FirstSeen(S, sid, t) == IF sid \in DOMAIN S THEN S[sid].firstSeen ELSE t

\* Faulty variant of handlePageView: a body without sessionId is rejected.
handlePageView_RequiresSessionId(ev, S, V, t) ==
    LET data == JSONparse(ev.body)
        view == [sessionId |-> data.sessionId, page |-> data.page,
                 timestamp |-> ToISOString(t)]
        pushed == Append(V, view)
        kept == IF Len(pushed) > MaxPageViews THEN SliceLast(pushed, MaxPageViews)
                ELSE pushed
        session == [sessionId |-> data.sessionId,
                    firstSeen |-> FirstSeen(S, data.sessionId, t),
                    lastHeartbeat |-> t,
                    currentPage |-> data.page]
    IN  IF data.threw \/ data.sessionId = Undefined THEN Threw(S, V)
        ELSE Returned(MapSet(S, data.sessionId, session), kept,
                      Response(200, [success |-> TRUE, message |-> "Page view recorded"]))

\* async function handlePageView(event, headers)
handlePageView(ev, S, V, t) ==
    LET data == JSONparse(ev.body)
        \* { ...data, timestamp }: spreading null adds no member
        view == [sessionId |-> data.sessionId, page |-> data.page,
                 timestamp |-> ToISOString(t)]
        pushed == Append(V, view)
        kept == IF Len(pushed) > MaxPageViews THEN SliceLast(pushed, MaxPageViews)
                ELSE pushed
        session == [sessionId |-> data.sessionId,
                    firstSeen |-> FirstSeen(S, data.sessionId, t),
                    lastHeartbeat |-> t,
                    currentPage |-> data.page]
    IN  IF data.threw THEN Threw(S, V)
        ELSE IF data.isNull THEN Threw(S, kept)  \* data.sessionId of null: TypeError
        ELSE Returned(MapSet(S, data.sessionId, session), kept,
                      Response(200, [success |-> TRUE, message |-> "Page view recorded"]))

\* Faulty variant of handleHeartbeat: the refreshed session is never stored.
handleHeartbeat_NoRefresh(ev, S, V, t) ==
    LET data == JSONparse(ev.body)
    IN  IF data.threw \/ data.isNull THEN Threw(S, V)
        ELSE Returned(S, V,
                      Response(200, [success |-> TRUE, message |-> "Heartbeat received"]))

\* Faulty variant of handleHeartbeat: a heartbeat for an unknown sessionId creates it.
handleHeartbeat_Upsert(ev, S, V, t) ==
    LET data == JSONparse(ev.body)
    IN  IF data.threw \/ data.isNull THEN Threw(S, V)
        ELSE Returned(MapSet(S, data.sessionId,
                             [sessionId |-> data.sessionId,
                              firstSeen |-> FirstSeen(S, data.sessionId, t),
                              lastHeartbeat |-> t,
                              currentPage |-> Undefined]),
                      V,
                      Response(200, [success |-> TRUE, message |-> "Heartbeat received"]))

\* async function handleHeartbeat(event, headers)
handleHeartbeat(ev, S, V, t) ==
    LET data == JSONparse(ev.body)
    IN  IF data.threw \/ data.isNull THEN Threw(S, V)
        ELSE Returned(IF data.sessionId \in DOMAIN S
                      THEN MapSet(S, data.sessionId,
                                  [S[data.sessionId] EXCEPT !.lastHeartbeat = t])
                      ELSE S,
                      V,
                      Response(200, [success |-> TRUE, message |-> "Heartbeat received"]))

\* Faulty variant of handleOffline: the views of the session are dropped with it.
handleOffline_DropsViews(ev, S, V, t) ==
    LET data == JSONparse(ev.body)
        Other(view) == view.sessionId # data.sessionId
    IN  IF data.threw \/ data.isNull THEN Threw(S, V)
        ELSE Returned(MapDelete(S, data.sessionId), SelectSeq(V, Other),
                      Response(200, [success |-> TRUE, message |-> "User offline"]))

\* Faulty variant of handleOffline: sessions.delete(data.id), a member that is not there.
handleOffline_WrongKey(ev, S, V, t) ==
    LET data == JSONparse(ev.body)
    IN  IF data.threw \/ data.isNull THEN Threw(S, V)
        ELSE Returned(MapDelete(S, Undefined), V,
                      Response(200, [success |-> TRUE, message |-> "User offline"]))

\* async function handleOffline(event, headers)
handleOffline(ev, S, V, t) ==
    LET data == JSONparse(ev.body)
    IN  IF data.threw \/ data.isNull THEN Threw(S, V)
        ELSE Returned(MapDelete(S, data.sessionId), V,
                      Response(200, [success |-> TRUE, message |-> "User offline"]))

\* Faulty variant of TodayPages: the filter is left out.
TodayPages_NoFilter(V, today) == V

\* pageViews.filter(view => new Date(view.timestamp).toDateString() === today)
TodayPages(V, today) ==
    LET IsToday(view) == ToDateString(DateOf(view.timestamp)) = today
    IN  SelectSeq(V, IsToday)

\* pageStats[view.page] = (pageStats[view.page] || 0) + 1, for each view
PageStats(views) ==
    [p \in {views[i].page : i \in 1..Len(views)} |->
        Cardinality({i \in 1..Len(views) : views[i].page = p})]

\* Object.entries(pageStats): the keys in the order they were first inserted
Entries(views) ==
    LET stats == PageStats(views)
        First(p) == CHOOSE i \in 1..Len(views) :
                        /\ views[i].page = p
                        /\ \A j \in 1..(i - 1) : views[j].page # p
        KeyAt(k) == CHOOSE p \in DOMAIN stats :
                        Cardinality({q \in DOMAIN stats : First(q) < First(p)}) = k - 1
    IN  [k \in 1..Cardinality(DOMAIN stats) |->
            [page |-> KeyAt(k), count |-> stats[KeyAt(k)]]]

\* Faulty variant of SortByCountDesc: (a - b), smaller counts first.
SortByCountDesc_Ascending(entries) ==
    LET Ahead(j, k) == \/ entries[j].count < entries[k].count
                       \/ entries[j].count = entries[k].count /\ j < k
        At(i) == CHOOSE k \in 1..Len(entries) :
                     Cardinality({j \in 1..Len(entries) : Ahead(j, k)}) = i - 1
    IN  [i \in 1..Len(entries) |-> entries[At(i)]]

\* .sort(([,a], [,b]) => b - a): a stable sort, larger counts first
SortByCountDesc(entries) ==
    LET Ahead(j, k) == \/ entries[j].count > entries[k].count
                       \/ entries[j].count = entries[k].count /\ j < k
        At(i) == CHOOSE k \in 1..Len(entries) :
                     Cardinality({j \in 1..Len(entries) : Ahead(j, k)}) = i - 1
    IN  [i \in 1..Len(entries) |-> entries[At(i)]]

\* .slice(0, n)
SliceFirst(seq, n) == IF Len(seq) <= n THEN seq ELSE SubSeq(seq, 1, n)

\* async function getCurrentStats(headers)
getCurrentStats(S, V, t) ==
    LET today == ToDateString(t)
        todayViews == Len(TodayPages(V, today))
        onlineUsers == Cardinality(DOMAIN S)
        totalViews == Len(V)
        todayPages == TodayPages(V, today)
        popularPages == SliceFirst(SortByCountDesc(Entries(todayPages)), PopularLimit)
    IN  Returned(S, V,
                 Response(200, [onlineUsers |-> onlineUsers,
                                todayViews |-> todayViews,
                                totalViews |-> totalViews,
                                popularPages |-> popularPages,
                                timestamp |-> ToISOString(t)]))

\* Faulty variant of Preflight: the OPTIONS test is missing.
Preflight_Never(method) == FALSE

\* if (event.httpMethod === 'OPTIONS'): the preflight test
Preflight(method) == method = "OPTIONS"

\* Faulty variant of Due: the sweep window is ten minutes.
Due_TenMinutes(t, LC) == t - LC > 10 * 60 * 1000

\* Faulty variant of Due: >= 60000, a sweep exactly one minute after the last.
Due_AtLeast(t, LC) == t - LC >= CleanupInterval

\* if (Date.now() - lastCleanup > 60000): the sweep is due
Due(t, LC) == t - LC > CleanupInterval

\* switch (path): a case whose method test fails breaks out of the switch,
\* and exports.handler then ends without a return statement.
dispatch(ev, S, V, t) ==
    LET path == StripPrefix(ev.path)
        method == ev.httpMethod
    IN  IF path = <<"/pageview">>
        THEN IF method = "POST" THEN handlePageView(ev, S, V, t)
             ELSE Returned(S, V, NoResponse)
        ELSE IF path = <<"/heartbeat">>
        THEN IF method = "POST" THEN handleHeartbeat(ev, S, V, t)
             ELSE Returned(S, V, NoResponse)
        ELSE IF path = <<"/offline">>
        THEN IF method = "POST" THEN handleOffline(ev, S, V, t)
             ELSE Returned(S, V, NoResponse)
        ELSE IF path = <<"/current">>
        THEN IF method = "GET" THEN getCurrentStats(S, V, t)
             ELSE Returned(S, V, NoResponse)
        ELSE Returned(S, V, Response(404, [error |-> "Not found"]))

\* Faulty variant of handler: the sweep runs after the request's own handler.
handler_SweepsLast(ev, S, V, LC, t) ==
    LET due == Due(t, LC)
        routed == dispatch(ev, S, V, t)
    IN  IF Preflight(ev.httpMethod)
        THEN [sessions |-> S, pageViews |-> V, lastCleanup |-> LC, swept |-> FALSE,
              atDispatch |-> [sessions |-> S, pageViews |-> V],
              response |-> Response(200, EmptyBody)]
        ELSE [sessions |-> IF due THEN cleanup(routed.sessions, t) ELSE routed.sessions,
              pageViews |-> routed.pageViews,
              lastCleanup |-> IF due THEN t ELSE LC, swept |-> due,
              atDispatch |-> [sessions |-> S, pageViews |-> V],
              response |-> IF routed.threw
                           THEN Response(500, [error |-> "Internal server error"])
                           ELSE routed.response]

\* exports.handler = async (event, context) => ...: one invocation at time t
\* from the module state (S, V, LC).
handler(ev, S, V, LC, t) ==
    LET due == Due(t, LC)
        S1 == IF due THEN cleanup(S, t) ELSE S
        LC1 == IF due THEN t ELSE LC
        routed == dispatch(ev, S1, V, t)
    IN  IF Preflight(ev.httpMethod)
        THEN [sessions |-> S, pageViews |-> V, lastCleanup |-> LC, swept |-> FALSE,
              atDispatch |-> [sessions |-> S, pageViews |-> V],
              response |-> Response(200, EmptyBody)]
        ELSE [sessions |-> routed.sessions, pageViews |-> routed.pageViews,
              lastCleanup |-> LC1, swept |-> due,
              atDispatch |-> [sessions |-> S1, pageViews |-> V],
              response |-> IF routed.threw
                           THEN Response(500, [error |-> "Internal server error"])
                           ELSE routed.response]

\* The switch reaches one of its `return await handleX(...)`: the invocation
\* is suspended once the called function has run.
Awaits(ev) ==
    LET path == StripPrefix(ev.path)
        method == ev.httpMethod
    IN  /\ ~Preflight(method)
        /\ \/ path \in {<<"/pageview">>, <<"/heartbeat">>, <<"/offline">>} /\ method = "POST"
           \/ path = <<"/current">> /\ method = "GET"

\* Faulty variant of Turn: the called function is suspended before its first
\* statement (as if it awaited the request body), so its effects happen in
\* the turn after the await.
Turn_EffectsAfterAwait(k, ev, S, V, LC, t) ==
    LET due == Due(t, LC)
        S1 == IF due THEN cleanup(S, t) ELSE S
        routed == dispatch(ev, S, V, t)
    IN  IF ~Awaits(ev) THEN handler(ev, S, V, LC, t)
        ELSE IF k = 1
        THEN [sessions |-> S1, pageViews |-> V,
              lastCleanup |-> IF due THEN t ELSE LC, swept |-> due,
              atDispatch |-> [sessions |-> S1, pageViews |-> V],
              response |-> NoResponse]
        ELSE [sessions |-> routed.sessions, pageViews |-> routed.pageViews,
              lastCleanup |-> LC, swept |-> FALSE,
              atDispatch |-> [sessions |-> S, pageViews |-> V],
              response |-> IF routed.threw
                           THEN Response(500, [error |-> "Internal server error"])
                           ELSE routed.response]

\* The k-th event turn of an invocation begun at time t.  Turn 1 runs from
\* the entry of exports.handler to the await: the sweep, the switch and the
\* whole body of the called function, which has no await of its own.  Turn 2
\* runs after the await: the awaited value is returned, or the catch block
\* builds the 500 response; neither touches the module state.
Turn(k, ev, S, V, LC, t) ==
    IF k = 1 THEN handler(ev, S, V, LC, t)
    ELSE [sessions |-> S, pageViews |-> V, lastCleanup |-> LC, swept |-> FALSE,
          atDispatch |-> [sessions |-> S, pageViews |-> V],
          response |-> NoResponse]

-----------------------------------------------------------------------------
(* The events the model sends *)

Path(suffix) == <<Prefix, suffix>>

PageViewBodies ==
    {MalformedBody, NullBody}
        \cup {ObjectBody(s, p) : s \in SessionIds, p \in Pages}
        \cup {ObjectBody(Undefined, "/home")}
SessionBodies ==
    {MalformedBody, NullBody} \cup {ObjectBody(s, Undefined) : s \in SessionIds}

Events ==
    {Event("POST", Path("/pageview"), b) : b \in PageViewBodies}
        \cup {Event("POST", Path("/heartbeat"), b) : b \in SessionBodies}
        \cup {Event("POST", Path("/offline"), b) : b \in SessionBodies}
        \cup {Event("GET", Path(x), NoBody) : x \in {"/current", "/pageview", "/other"}}
        \cup {Event("POST", Path("/current"), NoBody)}
        \cup {Event("GET", <<"/current">>, NoBody)}
        \cup {Event("OPTIONS", Path(x), NoBody) : x \in {"/pageview", "/current", "/other"}}

\* the events of the sessions' life cycle, sent by Spec
LifecycleEvents ==
    {Event("POST", Path("/pageview"), b) :
        b \in {ObjectBody("a", "/home"), ObjectBody("b", "/about"), NullBody}}
        \cup {Event("POST", Path("/heartbeat"), ObjectBody(s, Undefined)) : s \in SessionIds}
        \cup {Event("POST", Path("/offline"), ObjectBody("a", Undefined))}
        \cup {Event("GET", Path("/current"), NoBody)}
        \cup {Event("OPTIONS", Path("/heartbeat"), NoBody)}

\* the outcome classes the history variables record
IsPost(ev, suffix) == ev.httpMethod = "POST" /\ StripPrefix(ev.path) = <<suffix>>
IsGet(ev, suffix) == ev.httpMethod = "GET" /\ StripPrefix(ev.path) = <<suffix>>
Ok(resp) == resp.defined /\ resp.statusCode = 200

-----------------------------------------------------------------------------
(* Actions *)

Init ==
    /\ sessions = EmptyMap
    /\ pageViews = <<>>
    /\ now = StartTime
    /\ lastCleanup = StartTime
    /\ event = NoEvent
    /\ prev = [event |-> NoEvent, ok |-> FALSE, time |-> StartTime]
    /\ response = NoResponse
    /\ eventTime = StartTime
    /\ swept = FALSE
    /\ sweeps = <<>>
    /\ atEntry = [sessions |-> EmptyMap, lastCleanup |-> StartTime]
    /\ atDispatch = [sessions |-> EmptyMap, pageViews |-> <<>>]
    /\ submitted = <<>>
    /\ firstPageView = EmptyMap
    /\ lastSignal = EmptyMap
    /\ calls = <<>>
    /\ nRequests = 0
    /\ nTicks = 0

\* An invocation with event ev runs, with outcome r, at the present time.
Handle(ev, r) ==
    LET sid == ev.body.sessionId
        okView == IsPost(ev, "/pageview") /\ Ok(r.response)
        okBeat == IsPost(ev, "/heartbeat") /\ Ok(r.response)
    IN  /\ sessions' = r.sessions
        /\ pageViews' = r.pageViews
        /\ lastCleanup' = r.lastCleanup
        /\ response' = r.response
        /\ swept' = r.swept
        /\ sweeps' = IF r.swept THEN Append(sweeps, now) ELSE sweeps
        /\ atDispatch' = r.atDispatch
        /\ event' = ev
        /\ atEntry' = [sessions |-> sessions, lastCleanup |-> lastCleanup]
        /\ prev' = [event |-> event, ok |-> Ok(response), time |-> eventTime]
        /\ eventTime' = now
        /\ submitted' = IF IsPost(ev, "/pageview") /\ ev.body.text \in {"object", "null"}
                        THEN Append(submitted, [sessionId |-> sid, page |-> ev.body.page,
                                                time |-> now])
                        ELSE submitted
        /\ firstPageView' = IF okView /\ sid \notin DOMAIN firstPageView
                            THEN MapSet(firstPageView, sid, now) ELSE firstPageView
        /\ lastSignal' = IF okView \/ okBeat
                         THEN MapSet(lastSignal, sid, now) ELSE lastSignal
        /\ nRequests' = nRequests + 1
        /\ UNCHANGED <<now, nTicks>>

\* One invocation of exports.handler with event ev, from entry to return.
Request(ev) ==
    /\ Handle(ev, handler(ev, sessions, pageViews, lastCleanup, now))
    /\ UNCHANGED calls

\* exports.handler is called with event ev while earlier invocations may be
\* suspended at their await: its first turn runs.
Invoke(ev) ==
    LET r == Turn(1, ev, sessions, pageViews, lastCleanup, now)
    IN  /\ Handle(ev, r)
        /\ calls' = Append(calls, [event |-> ev, time |-> now,
                                   pc |-> IF Awaits(ev) THEN "awaiting" ELSE "returned",
                                   rank |-> 0])

\* The suspended invocation i resumes after its await and returns.
Resume(i) ==
    LET c == calls[i]
        r == Turn(2, c.event, sessions, pageViews, lastCleanup, c.time)
        returned == {j \in 1..Len(calls) : calls[j].rank > 0}
    IN  /\ c.pc = "awaiting"
        /\ sessions' = r.sessions
        /\ pageViews' = r.pageViews
        /\ lastCleanup' = r.lastCleanup
        /\ calls' = [calls EXCEPT ![i] = [c EXCEPT !.pc = "returned",
                                                   !.rank = Cardinality(returned) + 1]]
        /\ UNCHANGED <<now, event, prev, response, eventTime, swept, sweeps, atEntry,
                       atDispatch, submitted, firstPageView, lastSignal, nRequests,
                       nTicks>>

\* The wall clock advances by d while no invocation runs.
Tick(d) ==
    /\ now' = now + d
    /\ nTicks' = nTicks + 1
    /\ UNCHANGED <<sessions, pageViews, lastCleanup, event, prev, response,
                   eventTime, swept, sweeps, atEntry, atDispatch, submitted,
                   firstPageView, lastSignal, calls, nRequests>>

Next ==
    \/ nRequests < MaxRequests /\ \E ev \in LifecycleEvents : Request(ev)
    \/ nTicks < MaxTicks /\ \E d \in Steps : Tick(d)

Spec == Init /\ [][Next]_vars

\* Every method, path and body, over shorter runs.
NextDispatch ==
    \/ nRequests < MaxDispatched /\ \E ev \in Events : Request(ev)
    \/ nTicks < MaxTicks /\ \E d \in Steps : Tick(d)

SpecDispatch == Init /\ [][NextDispatch]_vars

\* A burst of page views that fills the view list to its limit, the pages
\* taken in turn from FillPages, and then a few invocations of any kind.
FillPages == <<"/home", "/about", "/p3", "/p4", "/p5", "/p6", "/p7", "/p8", "/p9",
               "/p10", "/p11", "/p12">>
FillEvent(n) ==
    Event("POST", Path("/pageview"), ObjectBody("a", FillPages[(n % Len(FillPages)) + 1]))
BurstEvents ==
    {Event("POST", Path("/pageview"), b) :
        b \in {ObjectBody("a", "/home"), ObjectBody("b", "/about"), NullBody}}
        \cup {Event("GET", Path("/current"), NoBody)}
        \cup {Event("POST", Path(x), ObjectBody("a", Undefined)) : x \in {"/heartbeat", "/offline"}}
        \cup {Event("GET", Path("/other"), NoBody)}

NextBurst ==
    \/ nRequests < FillCount /\ Request(FillEvent(nRequests))
    \/ /\ nRequests >= FillCount
       /\ nRequests < FillCount + MaxBurst
       /\ \E ev \in BurstEvents : Request(ev)
    \/ nRequests >= FillCount /\ nTicks < MaxTicks /\ Tick(FiveMinutes)

SpecBurst == Init /\ [][NextBurst]_vars

\* Invocations that overlap: a new one may begin while earlier ones are
\* suspended, and the suspended ones resume in any order.
ConcurrentEvents ==
    {Event("POST", Path("/pageview"), b) :
        b \in {ObjectBody("a", "/home"), ObjectBody("a", "/about"), ObjectBody("b", "/about")}}
        \cup {Event("POST", Path(x), ObjectBody("a", Undefined)) : x \in {"/heartbeat", "/offline"}}
        \cup {Event("GET", Path("/current"), NoBody)}
        \cup {Event("OPTIONS", Path("/pageview"), NoBody)}

NextConcurrent ==
    \/ Len(calls) < MaxConcurrent /\ \E ev \in ConcurrentEvents : Invoke(ev)
    \/ \E i \in 1..Len(calls) : Resume(i)
    \/ nTicks < MaxTicks /\ \E d \in Steps : Tick(d)

SpecConcurrent == Init /\ [][NextConcurrent]_vars

-----------------------------------------------------------------------------
(* Properties *)

SessionRoutes == {"/pageview", "/heartbeat", "/offline"}
KnownRoutes == SessionRoutes \cup {"/current"}
RoutedMethod(suffix) == IF suffix = "/current" THEN "GET" ELSE "POST"
InternalError == Response(500, [error |-> "Internal server error"])
NotFound == Response(404, [error |-> "Not found"])

\* the latest invocation reached the handler of `suffix`
Handled(suffix) ==
    event.httpMethod = RoutedMethod(suffix) /\ StripPrefix(event.path) = <<suffix>>

\* the number of stored views whose calendar date is that of instant t
ViewsDated(t) ==
    Cardinality({i \in 1..Len(pageViews) : DateOf(pageViews[i].timestamp) \div DayMs = t \div DayMs})

\* C1: after any sequence of requests the stored view sequence has length
\* min(number of page views submitted, 1000) and holds the most recently
\* submitted views in arrival order.
C1_StoredViewsAreLatestSubmitted ==
    LET n == Len(submitted)
        k == IF n < 1000 THEN n ELSE 1000
    IN  /\ Len(pageViews) = k
        /\ \A i \in 1..k :
              /\ pageViews[i].sessionId = submitted[n - k + i].sessionId
              /\ pageViews[i].page = submitted[n - k + i].page
              /\ DateOf(pageViews[i].timestamp) = submitted[n - k + i].time

\* C1 witness: more than 1000 views were submitted and the oldest were dropped.
C1_Witness ==
    /\ Len(submitted) > 1000
    /\ Len(pageViews) = 1000
    /\ Handled("/pageview")
    /\ pageViews[1].page # submitted[1].page

\* C2: a request for a known path with a method other than the routed one
\* is answered 404 {error: "Not found"}.
C2_WrongMethodIsNotFound ==
    \A x \in KnownRoutes :
        (/\ StripPrefix(event.path) = <<x>>
         /\ event.httpMethod \in {"GET", "POST"}
         /\ event.httpMethod # RoutedMethod(x))
            => response = NotFound

\* C3 as stated: after a request (other than OPTIONS) made at least 60 s
\* after the previous sweep, no session without a signal for more than
\* 5 minutes is in the table.
C3_NoStaleSessionAfterSixtySeconds ==
    (event # NoEvent /\ event.httpMethod # "OPTIONS"
        /\ eventTime - atEntry.lastCleanup >= 60000)
        => \A s \in DOMAIN sessions : eventTime - sessions[s].lastHeartbeat <= 300000

\* C3 amended: after a request other than OPTIONS made more than 60,000 ms
\* after the previous sweep, the sweep has run and no session without a
\* signal for more than 5 minutes is in the table.
C3_NoStaleSessionAfterSweep ==
    (event # NoEvent /\ event.httpMethod # "OPTIONS"
        /\ eventTime - atEntry.lastCleanup > 60000)
        => /\ swept
           /\ lastCleanup = eventTime
           /\ \A s \in DOMAIN sessions : eventTime - sessions[s].lastHeartbeat <= 300000

\* C3 witness: a sweep has removed a session that had been silent for more
\* than 5 minutes.
C3_Witness ==
    /\ swept
    /\ \E s \in DOMAIN atEntry.sessions :
          /\ eventTime - atEntry.sessions[s].lastHeartbeat > 300000
          /\ s \notin DOMAIN sessions

\* C4 as stated: the firstSeen stored for a sessionId is the time of the
\* first page view ever submitted with that sessionId.
C4_FirstSeenIsFirstPageViewEver ==
    \A s \in DOMAIN sessions :
        s \in DOMAIN firstPageView /\ sessions[s].firstSeen = firstPageView[s]

\* C4 amended: firstSeen does not change while the session stays in the
\* table; a session the latest invocation put into the table (it was not
\* there, or the sweep of that invocation had removed it) has the time of
\* that invocation as its firstSeen.
C4_FirstSeenKeptWhileInTable ==
    \A s \in DOMAIN sessions :
        IF s \in DOMAIN atEntry.sessions /\ s \in DOMAIN atDispatch.sessions
        THEN sessions[s].firstSeen = atEntry.sessions[s].firstSeen
        ELSE Handled("/pageview") /\ sessions[s].firstSeen = eventTime

\* C4 witness: a repeated page view, later than the first, kept firstSeen.
C4_Witness ==
    /\ Handled("/pageview") /\ Ok(response)
    /\ event.body.sessionId \in DOMAIN atDispatch.sessions
    /\ sessions[event.body.sessionId].firstSeen < eventTime

\* C5: for every session in the table, lastHeartbeat is the time of the
\* latest successfully handled page view or heartbeat for its sessionId,
\* and firstSeen <= lastHeartbeat.
C5_LastHeartbeatIsLatestSignal ==
    \A s \in DOMAIN sessions :
        /\ s \in DOMAIN lastSignal
        /\ sessions[s].lastHeartbeat = lastSignal[s]
        /\ sessions[s].firstSeen <= sessions[s].lastHeartbeat

\* C5 witness: a heartbeat, later than the page view, refreshed a session.
C5_Witness ==
    /\ Handled("/heartbeat") /\ Ok(response)
    /\ event.body.sessionId \in DOMAIN sessions
    /\ sessions[event.body.sessionId].firstSeen < sessions[event.body.sessionId].lastHeartbeat
    /\ sessions[event.body.sessionId].lastHeartbeat = eventTime

\* C6: POST /offline for s removes s, whether or not it was there, and no
\* other session; a GET /current handled next does not count s.
C6_OfflineThenCurrent ==
    /\ (Handled("/offline") /\ Ok(response))
          => /\ DOMAIN sessions = DOMAIN atDispatch.sessions \ {event.body.sessionId}
             /\ \A s \in DOMAIN sessions : sessions[s] = atDispatch.sessions[s]
    /\ (Handled("/current") /\ Ok(response)
            /\ prev.ok /\ IsPost(prev.event, "/offline"))
          => /\ prev.event.body.sessionId \notin DOMAIN sessions
             /\ response.body.onlineUsers = Cardinality(DOMAIN sessions)

\* C6 witness: a session that had been created was sent offline, and
\* /current was handled next.
C6_Witness ==
    /\ Handled("/current") /\ Ok(response)
    /\ prev.ok /\ IsPost(prev.event, "/offline")
    /\ prev.event.body.sessionId \in DOMAIN firstPageView

\* C7: a heartbeat for a sessionId that is not in the table is answered
\* 200 {success: true} and its handler changes no session; only a page
\* view adds a sessionId to the table.
C7_UnknownHeartbeatIsNoOp ==
    /\ (Handled("/heartbeat") /\ event.body.text = "object"
            /\ event.body.sessionId \notin DOMAIN atDispatch.sessions)
          => /\ response = Response(200, [success |-> TRUE, message |-> "Heartbeat received"])
             /\ sessions = atDispatch.sessions
    /\ (DOMAIN sessions \ DOMAIN atEntry.sessions # {}) => Handled("/pageview")

\* C7 witness: a heartbeat for an unknown sessionId while another session exists.
C7_Witness ==
    /\ Handled("/heartbeat") /\ Ok(response)
    /\ event.body.sessionId \notin DOMAIN atDispatch.sessions
    /\ DOMAIN sessions # {}

\* C8: a POST to /pageview, /heartbeat or /offline whose body is not
\* parseable JSON is answered 500 {error: "Internal server error"} and the
\* handler leaves the session table and the view sequence unchanged.
C8_MalformedBodyIsInternalError ==
    \A x \in SessionRoutes :
        (Handled(x) /\ event.body.text = "malformed")
            => /\ response = InternalError
               /\ sessions = atDispatch.sessions
               /\ pageViews = atDispatch.pageViews

\* C8 witness: a malformed page view arrived while a session and a view existed.
C8_Witness ==
    /\ Handled("/pageview") /\ event.body.text = "malformed"
    /\ response = InternalError
    /\ DOMAIN sessions # {}
    /\ pageViews # <<>>

\* C9: for every request answered 500, none of the handler's effects are
\* applied: view sequence and session table are as before the handler.
C9_InternalErrorChangesNothing ==
    (response.defined /\ response.statusCode = 500)
        => /\ sessions = atDispatch.sessions
           /\ pageViews = atDispatch.pageViews

\* C10: in every GET /current response onlineUsers is the size of the
\* session table, totalViews the length of the view sequence, todayViews
\* the number of stored views dated today, todayViews <= totalViews <= 1000;
\* a successful page view followed at once by /current reports
\* onlineUsers >= 1 and todayViews >= 1.
C10_CurrentStats ==
    (Handled("/current") /\ response.defined)
        => /\ response.statusCode = 200
           /\ response.body.onlineUsers = Cardinality(DOMAIN sessions)
           /\ response.body.totalViews = Len(pageViews)
           /\ response.body.todayViews = ViewsDated(eventTime)
           /\ response.body.todayViews <= response.body.totalViews
           /\ response.body.totalViews <= 1000
           /\ (prev.ok /\ IsPost(prev.event, "/pageview") /\ prev.time = eventTime)
                 => /\ response.body.onlineUsers >= 1
                    /\ response.body.todayViews >= 1

\* C10 witness: /current right after a page view, with the view list at its
\* limit and some of the stored views dated before today.
C10_Witness ==
    /\ Handled("/current") /\ Ok(response)
    /\ prev.ok /\ IsPost(prev.event, "/pageview") /\ prev.time = eventTime
    /\ response.body.totalViews = 1000
    /\ response.body.todayViews >= 1
    /\ response.body.todayViews < response.body.totalViews

\* the pages of the stored views dated as instant t, and their numbers
PagesDated(t) ==
    {pageViews[i].page : i \in {j \in 1..Len(pageViews) :
                                   DateOf(pageViews[j].timestamp) \div DayMs = t \div DayMs}}
ViewsOfPageDated(p, t) ==
    Cardinality({i \in 1..Len(pageViews) :
                    /\ pageViews[i].page = p
                    /\ DateOf(pageViews[i].timestamp) \div DayMs = t \div DayMs})

C12_SweepAtMostOncePerMinute ==
    /\ [](/\ \A i \in 1..Len(sweeps) :
               sweeps[i] - (IF i = 1 THEN StartTime ELSE sweeps[i - 1]) > 60000
          /\ swept => event.httpMethod \notin {"OPTIONS", "none"})
    /\ [][/\ sweeps' # sweeps => nRequests' = nRequests + 1 /\ swept'
          /\ nRequests' = nRequests => UNCHANGED <<sessions, lastCleanup, sweeps>>]_vars

\* C12 witness: a sweep has run, and a request exactly 60,000 ms after it
\* ran none.
C12_Witness ==
    /\ Len(sweeps) = 1
    /\ ~swept
    /\ event.httpMethod \notin {"OPTIONS", "none"}
    /\ eventTime - sweeps[1] = 60000

\* C13: a sweep at time s removes exactly the sessions whose lastHeartbeat
\* is older than s - 5 minutes; every other session keeps all its fields,
\* the view sequence is unchanged, and a session exactly 5 minutes old stays.
C13_SweepRemovesExactlyStale ==
    [][(nRequests' # nRequests /\ swept')
          => /\ DOMAIN atDispatch'.sessions =
                    {s \in DOMAIN sessions : now - sessions[s].lastHeartbeat <= 300000}
             /\ \A s \in DOMAIN atDispatch'.sessions : atDispatch'.sessions[s] = sessions[s]
             /\ atDispatch'.pageViews = pageViews
             /\ lastCleanup' = now]_vars

\* C13 witness: one sweep kept a session exactly 5 minutes old and removed
\* an older one.
C13_Witness ==
    /\ swept
    /\ \E s \in DOMAIN atEntry.sessions :
          /\ eventTime - atEntry.sessions[s].lastHeartbeat = 300000
          /\ s \in DOMAIN atDispatch.sessions
    /\ \E s \in DOMAIN atEntry.sessions :
          /\ eventTime - atEntry.sessions[s].lastHeartbeat > 300000
          /\ s \notin DOMAIN atDispatch.sessions
    /\ pageViews # <<>>

\* C14: an OPTIONS request, on any path, is answered 200 with an empty
\* body and changes nothing: session table, view sequence and last-sweep
\* time stay as they were, and no sweep runs even when one is due.
C14_OptionsChangesNothing ==
    [][(nRequests' # nRequests /\ event'.httpMethod = "OPTIONS")
          => /\ response' = Response(200, EmptyBody)
             /\ ~swept'
             /\ UNCHANGED <<sessions, pageViews, lastCleanup, sweeps>>]_vars

\* C14 witness: an OPTIONS request arrived when a sweep was due and a
\* session was stale; the session is still there.
C14_Witness ==
    /\ event.httpMethod = "OPTIONS"
    /\ response = Response(200, EmptyBody)
    /\ eventTime - lastCleanup > 60000
    /\ \E s \in DOMAIN sessions : eventTime - sessions[s].lastHeartbeat > 300000

\* C16: when a sweep is due it runs before the request's own handler, for
\* every request other than OPTIONS, whatever the answer: the handler starts
\* from the swept table; a heartbeat for a session stale by more than
\* 5 minutes finds it removed and does nothing; a page view for such a
\* session creates it anew with firstSeen the time of the request.
C16_SweepRunsBeforeHandler ==
    LET before == atEntry.sessions
        stale == {s \in DOMAIN before : eventTime - before[s].lastHeartbeat > 300000}
        sid == event.body.sessionId
    IN  (event.httpMethod \notin {"OPTIONS", "none"}
            /\ eventTime - atEntry.lastCleanup > 60000)
            => /\ swept
               /\ atDispatch.sessions = [s \in DOMAIN before \ stale |-> before[s]]
               /\ (Handled("/heartbeat") /\ event.body.text = "object" /\ sid \in stale)
                     => /\ response = Response(200, [success |-> TRUE,
                                                     message |-> "Heartbeat received"])
                        /\ sid \notin DOMAIN sessions
                        /\ sessions = atDispatch.sessions
               /\ (Handled("/pageview") /\ event.body.text = "object" /\ sid \in stale)
                     => /\ sid \in DOMAIN sessions
                        /\ sessions[sid].firstSeen = eventTime
                        /\ sessions[sid].firstSeen # before[sid].firstSeen

\* C16 witness: a heartbeat for a stale session arrived in a request that
\* triggered the sweep, and the session is gone.
C16_Witness ==
    /\ Handled("/heartbeat")
    /\ swept
    /\ event.body.text = "object"
    /\ event.body.sessionId \in DOMAIN atEntry.sessions
    /\ eventTime - atEntry.sessions[event.body.sessionId].lastHeartbeat > 300000
    /\ event.body.sessionId \notin DOMAIN sessions

\* C17: every session counted in onlineUsers by a GET /current handled at
\* time t has lastHeartbeat >= t - 360,000 ms.
C17_OnlineCountBoundedStaleness ==
    (Handled("/current") /\ Ok(response))
        => /\ response.body.onlineUsers = Cardinality(DOMAIN atDispatch.sessions)
           /\ \A s \in DOMAIN atDispatch.sessions :
                 atDispatch.sessions[s].lastHeartbeat >= eventTime - 360000

\* C17 witness: a GET /current has counted a session whose last signal was
\* exactly 360,000 ms before.
C17_Witness ==
    /\ Handled("/current")
    /\ Ok(response)
    /\ response.body.onlineUsers > 0
    /\ \E s \in DOMAIN atDispatch.sessions :
          atDispatch.sessions[s].lastHeartbeat = eventTime - 360000

\* C19: a page view whose JSON object body has no sessionId is answered 200
\* and recorded; all such page views share the one session entry keyed by
\* undefined, so the table grows by at most one entry however many arrive,
\* and each appends its own view.
C19_MissingSessionIdIsAccepted ==
    LET before == atDispatch.sessions
    IN  /\ DOMAIN sessions \subseteq SessionIds \cup {Undefined}
        /\ (Handled("/pageview") /\ event.body.text = "object"
               /\ event.body.sessionId = Undefined)
              => /\ response = Response(200, [success |-> TRUE,
                                              message |-> "Page view recorded"])
                 /\ DOMAIN sessions = DOMAIN before \cup {Undefined}
                 /\ \A s \in DOMAIN before \ {Undefined} : sessions[s] = before[s]
                 /\ sessions[Undefined].lastHeartbeat = eventTime
                 /\ Len(pageViews) = Len(atDispatch.pageViews) + 1
                 /\ SubSeq(pageViews, 1, Len(atDispatch.pageViews)) = atDispatch.pageViews
                 /\ pageViews[Len(pageViews)] =
                        [sessionId |-> Undefined, page |-> event.body.page,
                         timestamp |-> ToISOString(eventTime)]

\* C19 witness: two page views without sessionId in a row: one session
\* entry, two views.
C19_Witness ==
    /\ Handled("/pageview") /\ event.body.text = "object"
    /\ event.body.sessionId = Undefined
    /\ prev.event = event /\ prev.ok
    /\ DOMAIN sessions = {Undefined}
    /\ Len(pageViews) = 2
    /\ pageViews[1].sessionId = Undefined /\ pageViews[2].sessionId = Undefined

\* C18: the view sequence is changed only by the page-view handler: the
\* sweep and every other request leave it as it was; the views stored
\* before a request are still there afterwards, unmodified and in order,
\* except for the oldest one when the sequence is full; the length never
\* decreases; and the handler of GET /current changes neither the session
\* table nor the view sequence.
C18_ViewsChangedOnlyByPageView ==
    [][/\ nRequests' = nRequests => pageViews' = pageViews
       /\ nRequests' # nRequests
             => /\ atDispatch'.pageViews = pageViews
                /\ pageViews' # pageViews => IsPost(event', "/pageview")
                /\ Len(pageViews') >= Len(pageViews)
                /\ \/ SubSeq(pageViews', 1, Len(pageViews)) = pageViews
                   \/ /\ pageViews # <<>>
                      /\ SubSeq(pageViews', 1, Len(pageViews) - 1) = Tail(pageViews)
                /\ IsGet(event', "/current")
                      => /\ sessions' = atDispatch'.sessions
                         /\ pageViews' = pageViews]_vars

\* C18 witness: a page view arrived when the sequence was full: the length
\* stayed 1000 and the stored views moved up one place unmodified.
C18_Witness ==
    /\ IsPost(event, "/pageview")
    /\ Len(atDispatch.pageViews) = 1000
    /\ Len(pageViews) = 1000
    /\ SubSeq(pageViews, 1, 999) = Tail(atDispatch.pageViews)

\* the module state after handling the invocations cs one after another,
\* each from entry to return at the time it began
RECURSIVE Sequential(_)
Sequential(cs) ==
    IF cs = <<>>
    THEN [sessions |-> EmptyMap, pageViews |-> <<>>, lastCleanup |-> StartTime]
    ELSE LET before == Sequential(SubSeq(cs, 1, Len(cs) - 1))
             c == cs[Len(cs)]
             r == handler(c.event, before.sessions, before.pageViews,
                          before.lastCleanup, c.time)
         IN  [sessions |-> r.sessions, pageViews |-> r.pageViews,
              lastCleanup |-> r.lastCleanup]

\* C15: overlapping invocations do not interleave their mutations: the
\* module state changes only in the step in which an invocation begins,
\* never when a suspended one resumes, and once every invocation has
\* returned the session table and the view sequence are those of handling
\* the same invocations one after another in the order they began.
C15_NoInterleavedMutation ==
    /\ []((\A i \in 1..Len(calls) : calls[i].pc = "returned")
            => /\ sessions = Sequential(calls).sessions
               /\ pageViews = Sequential(calls).pageViews)
    /\ [][<<sessions, pageViews, lastCleanup>>' # <<sessions, pageViews, lastCleanup>>
             => Len(calls') = Len(calls) + 1]_vars

\* C15 witness: two page views of one session overlapped, the second
\* returned before the first, and both have returned.
C15_Witness ==
    /\ Len(calls) = 2
    /\ \A i \in 1..2 : calls[i].pc = "returned" /\ IsPost(calls[i].event, "/pageview")
    /\ calls[1].rank = 2 /\ calls[2].rank = 1
    /\ calls[1].event.body.sessionId = calls[2].event.body.sessionId
    /\ calls[1].event.body.page # calls[2].event.body.page
    /\ Len(pageViews) = 2

=============================================================================
